---- MODULE Spec2Model ----
(***************************************************************************)
(* Model of vllm/entrypoints/api_server.py: the life of one POST /generate *)
(* request, from the route handler through _generate to its terminal       *)
(* outcome, against a backend that yields, ends or fails, and a client     *)
(* that may disconnect.                                                    *)
(***************************************************************************)
EXTENDS Integers, Sequences, FiniteSets, TLC

(* Longest backend output sequence explored. *)
MaxLen == 2

(* The most other requests in flight at a time. *)
MaxOthers == 1

VARIABLES
    engine,             \* module global `engine`
    body,               \* the JSON body the client sent (None before arrival)
    request_dict,       \* _generate's request_dict, mutated by pop
    prompt,             \* local of _generate
    stream,             \* local of _generate
    sampling_params,    \* local of _generate
    request_id,         \* local of _generate
    inputs,             \* local of _generate
    results_generator,  \* index in gens of the generator the local is bound to
    final_output,       \* local of _generate (aggregate mode)
    gens,               \* every generator engine.generate returned, in call order
    backend,            \* backend scheduling state of the request
    produced,           \* RequestOutputs the backend has produced so far
    consumed,           \* how many of them the handler has pulled
    aborts,             \* request ids of the abort signals the backend received
    status,             \* HTTP status line sent (0: none yet)
    emitted,            \* records written to the response body, in order
    outcomes,           \* terminal outcomes produced for the request, in order
    raised,             \* the exception that left the handler ("": none)
    disconnect,         \* None, or where the request stood when the client left
    cancelled,          \* a CancelledError was raised at the handler's wait
    serving,            \* run_server has reached serve_http
    served,             \* the request came in through the serving socket
    others,             \* request ids of the other requests in flight
    health_status,      \* status of the last /health response (0: none yet)
    pc                  \* position of the request handling task

handler_vars == <<request_dict, prompt, stream, sampling_params, request_id,
                  inputs, results_generator, final_output>>
backend_vars == <<gens, backend, produced, aborts>>
response_vars == <<status, emitted, outcomes, raised>>
server_vars == <<serving, others, health_status>>
vars == <<engine, body, handler_vars, backend_vars, consumed, response_vars,
          disconnect, cancelled, served, server_vars, pc>>

----------------------------------------------------------------------------
(* Python values.  Every value is a record whose single field names its    *)
(* type, so values of different types can be compared.                     *)

None == [none |-> TRUE]
PyBool(b) == [bool |-> b]
PyInt(i) == [int |-> i]
PyStr(s) == [str |-> s]          \* s: the sequence of the string's characters
PyList(l) == [list |-> l]

(* Python truth value of v, as `if stream:` and `if prompt` compute it. *)
Truthy(v) ==
    IF "none" \in DOMAIN v THEN FALSE
    ELSE IF "bool" \in DOMAIN v THEN v.bool
    ELSE IF "int" \in DOMAIN v THEN v.int # 0
    ELSE IF "str" \in DOMAIN v THEN Len(v.str) > 0
    ELSE IF "list" \in DOMAIN v THEN Len(v.list) > 0
    ELSE TRUE

(* len(v) of a str or a list. *)
len(v) == IF "str" \in DOMAIN v THEN Len(v.str) ELSE Len(v.list)

(* v[0] of a non-empty str (a one-character str) or list. *)
first_element(v) ==
    IF "str" \in DOMAIN v THEN PyStr(<<v.str[1]>>) ELSE v.list[1]

(* isinstance(v, int) *)
isinstance_int(v) == "int" \in DOMAIN v \/ "bool" \in DOMAIN v

(* dict.pop(k): the dict without key k. *)
dict_pop(d, k) == [j \in DOMAIN d \ {k} |-> d[j]]

----------------------------------------------------------------------------
(* Request bodies. *)

PromptValues ==
    { PyStr(<<"H", "i">>), PyStr(<<>>),
      PyList(<<PyInt(1), PyInt(2), PyInt(3)>>), PyList(<<>>),
      PyList(<<PyStr(<<"H", "i">>)>>) }

StreamValues == {PyBool(TRUE), PyBool(FALSE)}

(* The other fields of a body: none, a valid one, an out-of-domain one,    *)
(* an unrecognized one.                                                    *)
OtherFields ==
    { <<>>,
      [max_tokens |-> PyInt(2)],
      [max_tokens |-> PyInt(0)],
      [bogus |-> PyInt(1)] }

Merge(f, g) ==
    [k \in DOMAIN f \cup DOMAIN g |-> IF k \in DOMAIN f THEN f[k] ELSE g[k]]

Bodies ==
    { Merge(Merge(p, s), o) :
        p \in {<<>>} \cup {[prompt |-> v] : v \in PromptValues},
        s \in {<<>>} \cup {[stream |-> v] : v \in StreamValues},
        o \in OtherFields }

(* random_uuid() draws from these. *)
RequestIds == {[uuid |-> "a"], [uuid |-> "b"], [uuid |-> "c"]}

----------------------------------------------------------------------------
(* Backend outputs: Logprob, CompletionOutput, RequestOutput. *)

Logprob(lp, rank) == [cls |-> "Logprob", logprob |-> lp, rank |-> rank]

(* An Optional[x] is <<>> for None and <<x>> otherwise. *)
Nothing == <<>>
Some(x) == <<x>>

CompletionOutput(text, token_ids, logprobs) ==
    [text |-> text, token_ids |-> token_ids, logprobs |-> logprobs]

RequestOutput(outputs) == [outputs |-> outputs]

OutA == RequestOutput(<<CompletionOutput("Hi", <<7>>, Nothing)>>)
OutB ==
    RequestOutput(
        << CompletionOutput("Hi there", <<7, 8>>,
               Some(<< (7 :> Logprob(-1, 1)),
                       (8 :> Logprob(-2, 1)) @@ (9 :> Logprob(-3, 2)) >>)),
           CompletionOutput("Ho", <<5>>, Nothing) >>)

RequestOutputs == {OutA, OutB}

----------------------------------------------------------------------------
(* Response encoding. *)

(* dataclasses.asdict of a Logprob: its fields as a dict, the class gone. *)
asdict(v) == [logprob |-> v.logprob, rank |-> v.rank]

(* [{k: asdict(v) ...} for logprobs in output.logprobs]                    *)
(*     if output.logprobs is not None else None                            *)
logprobs_of(output) ==
    IF output.logprobs # Nothing
    THEN LET l == output.logprobs[1]
         IN  Some([i \in DOMAIN l |-> [k \in DOMAIN l[i] |-> asdict(l[i][k])]])
    ELSE Nothing

(* The dict `ret` stream_results builds from one request_output. *)
stream_ret(request_output) ==
    LET outs == request_output.outputs
    IN  [ text |-> [i \in DOMAIN outs |-> outs[i].text],
          output_token_ids |-> [i \in DOMAIN outs |-> outs[i].token_ids],
          logprobs |-> [i \in DOMAIN outs |-> logprobs_of(outs[i])] ]

(* (json.dumps(ret) + "\n").encode("utf-8"): one line of the stream. *)
stream_line(request_output) ==
    [json |-> stream_ret(request_output), newline |-> TRUE]

(* A `ret` whose logprobs are never filled in. *)
final_ret_no_logprobs(output) ==
    LET outs == output.outputs
    IN  [ text |-> [i \in DOMAIN outs |-> outs[i].text],
          output_token_ids |-> [i \in DOMAIN outs |-> outs[i].token_ids],
          logprobs |-> [i \in DOMAIN outs |-> Nothing] ]

(* The dict `ret` the non-streaming case builds from final_output. *)
final_ret(output) ==
    LET outs == output.outputs
    IN  [ text |-> [i \in DOMAIN outs |-> outs[i].text],
          output_token_ids |-> [i \in DOMAIN outs |-> outs[i].token_ids],
          logprobs |-> [i \in DOMAIN outs |-> logprobs_of(outs[i])] ]

(* JSONResponse(ret): the one JSON object of the aggregate response. *)
JSONResponse(output) == [json |-> final_ret(output), newline |-> FALSE]

----------------------------------------------------------------------------
(* Collaborators of the handler. *)

(* SamplingParams of the keyword dict d accepts it: every field is          *)
(* recognized and in its domain.                                           *)
SamplingParamsAccepts(d) ==
    /\ DOMAIN d \subseteq {"max_tokens"}
    /\ "max_tokens" \in DOMAIN d =>
           "int" \in DOMAIN d["max_tokens"] /\ d["max_tokens"].int >= 1

SamplingParams(d) == [SamplingParams |-> d]

(* TokensPrompt(prompt_token_ids=p) *)
TokensPrompt(p) == [TokensPrompt |-> [prompt_token_ids |-> p]]

(* engine.generate(inp, sp, rid): a new lazy output sequence, not started. *)
engine_generate(gs, inp, sp, rid) ==
    Append(gs, [inputs |-> inp, sampling_params |-> sp, request_id |-> rid,
                state |-> "created"])

(* The generator at index i moves to state st. *)
gen_state(gs, i, st) == [gs EXCEPT ![i].state = st]

(* abort(rid) as the generators see it: every sequence keyed by rid that   *)
(* has not ended is aborted.                                               *)
engine_abort(gs, rid) ==
    [i \in DOMAIN gs |->
        IF gs[i].request_id = rid /\ gs[i].state \in {"created", "running"}
        THEN [gs[i] EXCEPT !.state = "aborted"]
        ELSE gs[i]]

(* random_uuid(): any id but those of the requests in flight, which it     *)
(* never returns again while they last.                                    *)
random_uuid(in_flight) == RequestIds \ in_flight

(* The exception a failed output sequence raises in its consumer. *)
backend_error == "EngineError"

(* abort(rid) as the scheduler sees it: idempotent, harmless once ended. *)
backend_abort(b) == IF b = "running" THEN "aborted" ELSE b

----------------------------------------------------------------------------
(* The body of _generate up to its first suspension. *)

(* The locals of _generate on entry. *)
entry_locals(d) ==
    [ raised |-> "", request_dict |-> d, prompt |-> None, stream |-> None,
      sampling_params |-> None, request_id |-> None, inputs |-> None,
      gens |-> <<>>, results_generator |-> 0 ]

(* prompt = request_dict.pop("prompt") *)
pop_prompt(l) ==
    IF "prompt" \in DOMAIN l.request_dict
    THEN [l EXCEPT !.prompt = l.request_dict["prompt"],
                   !.request_dict = dict_pop(l.request_dict, "prompt")]
    ELSE [l EXCEPT !.raised = "KeyError"]

(* stream is read with get: the key stays in request_dict. *)
pop_stream_keeps_key(l) ==
    [l EXCEPT !.stream = IF "stream" \in DOMAIN l.request_dict
                         THEN l.request_dict["stream"]
                         ELSE PyBool(FALSE)]

(* stream = request_dict.pop("stream", False) *)
pop_stream(l) ==
    [l EXCEPT !.stream = IF "stream" \in DOMAIN l.request_dict
                         THEN l.request_dict["stream"]
                         ELSE PyBool(FALSE),
              !.request_dict = dict_pop(l.request_dict, "stream")]

(* sampling_params = SamplingParams built from the rest of request_dict *)
make_sampling_params(l) ==
    IF SamplingParamsAccepts(l.request_dict)
    THEN [l EXCEPT !.sampling_params = SamplingParams(l.request_dict)]
    ELSE [l EXCEPT !.raised = "ValueError"]

(* The id is a value fixed when the module is loaded. *)
set_request_id_constant(l, rid) == [l EXCEPT !.request_id = [uuid |-> "a"]]

(* request_id = random_uuid() *)
set_request_id(l, rid) == [l EXCEPT !.request_id = rid]

(* assert engine is not None *)
assert_engine(l, eng) ==
    IF eng # None THEN l ELSE [l EXCEPT !.raised = "AssertionError"]

(* results_generator = engine.generate(prompt, sampling_params, request_id) *)
first_generate(l) ==
    [l EXCEPT !.gens = engine_generate(l.gens, l.prompt, l.sampling_params,
                                       l.request_id),
              !.results_generator = Len(l.gens) + 1]

(* inputs = prompt, or TokensPrompt(prompt_token_ids=prompt) when prompt   *)
(* is non-empty and its first element is an int.                           *)
inputs_of(p) ==
    IF Truthy(p) /\ len(p) > 0
    THEN IF isinstance_int(first_element(p)) THEN TokensPrompt(p) ELSE p
    ELSE p

(* The second call is keyed by an id of its own, not by request_id. *)
second_generate_other_id(l) ==
    LET inp == inputs_of(l.prompt)
    IN  [l EXCEPT !.inputs = inp,
                  !.gens = engine_generate(l.gens, inp, l.sampling_params,
                                           [uuid |-> "other"]),
                  !.results_generator = Len(l.gens) + 1]

(* results_generator = engine.generate(inputs=inputs, ...) *)
second_generate(l) ==
    LET inp == inputs_of(l.prompt)
    IN  [l EXCEPT !.inputs = inp,
                  !.gens = engine_generate(l.gens, inp, l.sampling_params,
                                           l.request_id),
                  !.results_generator = Len(l.gens) + 1]

(* Lines 58 to 73 of _generate run on body d with global engine eng and    *)
(* fresh uuid rid.  A statement runs unless an exception is already        *)
(* raised; sN holds the locals after the N-th statement.                   *)
generate_entry(d, eng, rid) ==
    LET s1 == {pop_prompt(l) : l \in {entry_locals(d)}}
        s2 == {IF l.raised # "" THEN l ELSE pop_stream(l) : l \in s1}
        s3 == {IF l.raised # "" THEN l ELSE make_sampling_params(l) : l \in s2}
        s4 == {IF l.raised # "" THEN l ELSE set_request_id(l, rid) : l \in s3}
        s5 == {IF l.raised # "" THEN l ELSE assert_engine(l, eng) : l \in s4}
        s6 == {IF l.raised # "" THEN l ELSE first_generate(l) : l \in s5}
        s7 == {IF l.raised # "" THEN l ELSE second_generate(l) : l \in s6}
    IN  CHOOSE l \in s7 : TRUE

----------------------------------------------------------------------------
(* Responses. *)

(* The request ends: status line st (unless one was sent already), the     *)
(* records recs, the terminal outcome kind.                                *)
Respond(st, recs, kind) ==
    /\ status' = IF status = 0 THEN st ELSE status
    /\ emitted' = emitted \o recs
    /\ outcomes' = Append(outcomes, kind)
    /\ raised' = raised
    /\ pc' = "Done"

(* Exception exc leaves the handler: the framework answers 500, unless the *)
(* status line of a streaming response is already out.                     *)
ServerError(exc) ==
    /\ status' = IF status = 0 THEN 500 ELSE status
    /\ emitted' = emitted
    /\ outcomes' = Append(outcomes, "error")
    /\ raised' = exc
    /\ pc' = "Done"

----------------------------------------------------------------------------
Init ==
    /\ engine = None
    /\ body = None
    /\ request_dict = None
    /\ prompt = None
    /\ stream = None
    /\ sampling_params = None
    /\ request_id = None
    /\ inputs = None
    /\ results_generator = 0
    /\ final_output = None
    /\ gens = <<>>
    /\ backend = "none"
    /\ produced = <<>>
    /\ consumed = 0
    /\ aborts = <<>>
    /\ status = 0
    /\ emitted = <<>>
    /\ outcomes = <<>>
    /\ raised = ""
    /\ disconnect = None
    /\ cancelled = FALSE
    /\ serving = FALSE
    /\ served = FALSE
    /\ others = {}
    /\ health_status = 0
    /\ pc = "Idle"

(* init_app: the global engine is set. *)
init_app ==
    /\ engine = None
    /\ engine' = [engine |-> "AsyncLLMEngine"]
    /\ UNCHANGED <<served, server_vars, cancelled, body, handler_vars,
                   backend_vars, consumed, response_vars, disconnect, pc>>

(* generate: request_dict = await request.json() *)
generate(b) ==
    /\ pc = "Idle"
    /\ body' = b
    /\ request_dict' = b
    /\ served' = serving
    /\ pc' = "Received"
    /\ UNCHANGED <<server_vars, cancelled, engine, prompt, stream,
                   sampling_params, request_id, inputs, results_generator,
                   final_output, backend_vars, consumed, response_vars,
                   disconnect>>

(* _generate from its entry to its first suspension: an exception, the     *)
(* StreamingResponse, or the first wait of the non-streaming loop.         *)
generate_start ==
    /\ pc = "Received"
    /\ \E rid \in random_uuid(others) :
         \E l \in {generate_entry(request_dict, engine, rid)} :
             /\ request_dict' = l.request_dict
             /\ prompt' = l.prompt
             /\ stream' = l.stream
             /\ sampling_params' = l.sampling_params
             /\ request_id' = l.request_id
             /\ inputs' = l.inputs
             /\ results_generator' = l.results_generator
             /\ final_output' = None
             /\ IF l.raised # ""
                THEN /\ ServerError(l.raised)
                     /\ gens' = l.gens
                     /\ backend' = backend
                ELSE /\ gens' = gen_state(l.gens, l.results_generator, "running")
                     /\ backend' = "running"
                     /\ emitted' = emitted
                     /\ outcomes' = outcomes
                     /\ raised' = raised
                     /\ IF Truthy(l.stream)
                        THEN status' = 200 /\ pc' = "StreamWait"
                        ELSE status' = status /\ pc' = "AggWait"
    /\ UNCHANGED <<served, server_vars, cancelled, engine, body, produced,
                   consumed, aborts, disconnect>>

----------------------------------------------------------------------------
(* The output sequence as its consumer sees it. *)

(* The next output is there to be pulled. *)
next_available == consumed < Len(produced)

(* The sequence has ended and every output was pulled. *)
exhausted == consumed = Len(produced) /\ backend = "finished"

(* The backend has failed and every output before the failure was pulled. *)
failed == consumed = Len(produced) /\ backend = "failed"

(* The session is dropped with no abort signal. *)
session_discard ==
    /\ aborts' = aborts
    /\ gens' = gen_state(gens, results_generator, "closed")
    /\ backend' = backend

(* The session gives up its sequence: abort for its own request id. *)
session_abort ==
    LET rid == gens[results_generator].request_id
    IN  /\ aborts' = Append(aborts, rid)
        /\ gens' = engine_abort(gens, rid)
        /\ backend' = backend_abort(backend)

(* The wait for the next output races the client's disconnect: once the    *)
(* client has left, the wait is cancelled instead of resolved.             *)
wait_resolves == disconnect = None

(* with_cancellation: the client has left, so the pending wait is          *)
(* cancelled; the CancelledError passes through the output sequence,       *)
(* which aborts, and reaches its consumer.                                 *)
cancel_wait ==
    /\ pc \in {"AggWait", "StreamWait"}
    /\ ~wait_resolves
    /\ session_abort
    /\ cancelled' = TRUE
    /\ pc' = IF pc = "AggWait" THEN "AggCancelled" ELSE "StreamCancelled"
    /\ UNCHANGED <<served, server_vars, engine, body, handler_vars, produced,
                   consumed, response_vars, disconnect>>

----------------------------------------------------------------------------
(* Non-streaming case. *)

(* The loop answers with a record for every output it pulls. *)
aggregate_next_emits ==
    /\ pc = "AggWait"
    /\ wait_resolves
    /\ next_available
    /\ final_output' = produced[consumed + 1]
    /\ consumed' = consumed + 1
    /\ emitted' = Append(emitted, JSONResponse(produced[consumed + 1]))
    /\ UNCHANGED <<served, server_vars, cancelled, engine, body,
                   request_dict, prompt, stream, sampling_params, request_id,
                   inputs, results_generator, backend_vars, status, outcomes,
                   raised, disconnect, pc>>

(* async for request_output in results_generator: final_output = ... *)
aggregate_next ==
    /\ pc = "AggWait"
    /\ wait_resolves
    /\ next_available
    /\ final_output' = produced[consumed + 1]
    /\ consumed' = consumed + 1
    /\ emitted' = emitted
    /\ UNCHANGED <<served, server_vars, cancelled, engine, body,
                   request_dict, prompt, stream, sampling_params, request_id,
                   inputs, results_generator, backend_vars, status, outcomes,
                   raised, disconnect, pc>>

(* The response is built with no assertion before it: an empty record     *)
(* when nothing was pulled.                                                *)
aggregate_end_unasserted ==
    /\ pc = "AggWait"
    /\ wait_resolves
    /\ exhausted
    /\ gens' = gen_state(gens, results_generator, "exhausted")
    /\ Respond(200,
               IF final_output = None
               THEN <<[json |-> [text |-> <<>>], newline |-> FALSE]>>
               ELSE <<JSONResponse(final_output)>>,
               "success")
    /\ UNCHANGED <<served, server_vars, cancelled, engine, body,
                   handler_vars, backend, produced, aborts, consumed,
                   disconnect>>

(* The loop ends: assert final_output is not None, then JSONResponse(ret). *)
aggregate_end ==
    /\ pc = "AggWait"
    /\ wait_resolves
    /\ exhausted
    /\ gens' = gen_state(gens, results_generator, "exhausted")
    /\ IF final_output = None
       THEN ServerError("AssertionError")
       ELSE Respond(200, <<JSONResponse(final_output)>>, "success")
    /\ UNCHANGED <<served, server_vars, cancelled, engine, body,
                   handler_vars, backend, produced, aborts, consumed,
                   disconnect>>

(* The loop catches every exception the way it catches CancelledError:     *)
(* the backend's failure is answered like a disconnect.                    *)
aggregate_raise_as_cancelled ==
    /\ pc = "AggWait"
    /\ wait_resolves
    /\ failed
    /\ session_abort
    /\ Respond(499, <<>>, "cancelled")
    /\ UNCHANGED <<served, server_vars, cancelled, engine, body,
                   handler_vars, produced, consumed, disconnect>>

(* The backend's failure is raised in the loop and leaves the handler;     *)
(* the session is torn down.                                               *)
aggregate_raise ==
    /\ pc = "AggWait"
    /\ wait_resolves
    /\ failed
    /\ session_abort
    /\ ServerError(backend_error)
    /\ UNCHANGED <<served, server_vars, cancelled, engine, body,
                   handler_vars, produced, consumed, disconnect>>

(* The except clause re-raises: the task ends with no response. *)
aggregate_cancelled_reraise ==
    /\ pc = "AggCancelled"
    /\ pc' = "Done"
    /\ UNCHANGED <<served, server_vars, cancelled, engine, body,
                   handler_vars, backend_vars, consumed, response_vars,
                   disconnect>>

(* The except clause passes: control falls through to the code after the   *)
(* loop.                                                                   *)
aggregate_cancelled_falls_through ==
    /\ pc = "AggCancelled"
    /\ IF final_output = None
       THEN ServerError("AssertionError")
       ELSE Respond(200, <<JSONResponse(final_output)>>, "success")
    /\ UNCHANGED <<served, server_vars, cancelled, engine, body,
                   handler_vars, backend_vars, consumed, disconnect>>

(* except asyncio.CancelledError: return Response(status_code=499) *)
aggregate_cancelled ==
    /\ pc = "AggCancelled"
    /\ Respond(499, <<>>, "cancelled")
    /\ UNCHANGED <<served, server_vars, cancelled, engine, body,
                   handler_vars, backend_vars, consumed, disconnect>>

----------------------------------------------------------------------------
(* Streaming case. *)

(* A turn that yields a line only for the newest output there is. *)
stream_results_next_latest_only ==
    /\ pc = "StreamWait"
    /\ wait_resolves
    /\ next_available
    /\ emitted' = IF consumed + 1 = Len(produced)
                  THEN Append(emitted, stream_line(produced[consumed + 1]))
                  ELSE emitted
    /\ consumed' = consumed + 1
    /\ UNCHANGED <<served, server_vars, cancelled, engine, body,
                   handler_vars, backend_vars, status, outcomes, raised,
                   disconnect, pc>>

(* One turn of stream_results: pull request_output, yield its line. *)
stream_results_next ==
    /\ pc = "StreamWait"
    /\ wait_resolves
    /\ next_available
    /\ emitted' = Append(emitted, stream_line(produced[consumed + 1]))
    /\ consumed' = consumed + 1
    /\ UNCHANGED <<served, server_vars, cancelled, engine, body,
                   handler_vars, backend_vars, status, outcomes, raised,
                   disconnect, pc>>

(* The source ends: stream_results returns and the response is complete. *)
stream_results_end ==
    /\ pc = "StreamWait"
    /\ wait_resolves
    /\ exhausted
    /\ gens' = gen_state(gens, results_generator, "exhausted")
    /\ Respond(status, <<>>, "success")
    /\ UNCHANGED <<served, server_vars, cancelled, engine, body,
                   handler_vars, backend, produced, aborts, consumed,
                   disconnect>>

(* The backend's failure is raised in stream_results and ends the stream. *)
stream_results_raise ==
    /\ pc = "StreamWait"
    /\ wait_resolves
    /\ failed
    /\ session_abort
    /\ ServerError(backend_error)
    /\ UNCHANGED <<served, server_vars, cancelled, engine, body,
                   handler_vars, produced, consumed, disconnect>>

(* stream_results catches the CancelledError and yields a closing line. *)
stream_results_cancelled_trailer ==
    /\ pc = "StreamCancelled"
    /\ Respond(status, <<[json |-> [error |-> "cancelled"], newline |-> TRUE]>>,
               "cancelled")
    /\ UNCHANGED <<served, server_vars, cancelled, engine, body,
                   handler_vars, backend_vars, consumed, disconnect>>

(* stream_results catches the CancelledError and returns normally. *)
stream_results_cancelled_returns ==
    /\ pc = "StreamCancelled"
    /\ Respond(status, <<>>, "success")
    /\ UNCHANGED <<served, server_vars, cancelled, engine, body,
                   handler_vars, backend_vars, consumed, disconnect>>

(* The CancelledError leaves stream_results: the stream ends there. *)
stream_results_cancelled ==
    /\ pc = "StreamCancelled"
    /\ Respond(status, <<>>, "cancelled")
    /\ UNCHANGED <<served, server_vars, cancelled, engine, body,
                   handler_vars, backend_vars, consumed, disconnect>>

----------------------------------------------------------------------------
(* The backend and the client. *)

backend_yield(o) ==
    /\ backend = "running"
    /\ Len(produced) < MaxLen
    /\ produced' = Append(produced, o)
    /\ UNCHANGED <<served, server_vars, cancelled, engine, body,
                   handler_vars, gens, backend, aborts, consumed,
                   response_vars, disconnect, pc>>

backend_end ==
    /\ backend = "running"
    /\ backend' = "finished"
    /\ UNCHANGED <<served, server_vars, cancelled, engine, body,
                   handler_vars, gens, produced, aborts, consumed,
                   response_vars, disconnect, pc>>

backend_fail ==
    /\ backend = "running"
    /\ backend' = "failed"
    /\ UNCHANGED <<served, server_vars, cancelled, engine, body,
                   handler_vars, gens, produced, aborts, consumed,
                   response_vars, disconnect, pc>>

(* The client closes the connection of a request in flight. *)
client_disconnect ==
    /\ pc \in {"Received", "AggWait", "StreamWait"}
    /\ disconnect = None
    /\ disconnect' = [pc |-> pc, lines |-> Len(emitted), consumed |-> consumed,
                      exhausted |-> exhausted]
    /\ UNCHANGED <<served, server_vars, cancelled, engine, body,
                   handler_vars, backend_vars, consumed, response_vars, pc>>

(* The health check answers for the engine: 503 until it is set. *)
health_checks_engine ==
    /\ health_status' = IF engine = None THEN 503 ELSE 200
    /\ UNCHANGED <<engine, body, handler_vars, backend_vars, consumed,
                   response_vars, disconnect, cancelled, served, serving,
                   others, pc>>

(* health: return Response(status_code=200) *)
health ==
    /\ health_status' = 200
    /\ UNCHANGED <<engine, body, handler_vars, backend_vars, consumed,
                   response_vars, disconnect, cancelled, served, serving,
                   others, pc>>

(* run_server opens the socket first and builds the engine afterwards. *)
serve_http_before_init ==
    /\ ~serving
    /\ serving' = TRUE
    /\ UNCHANGED <<engine, body, handler_vars, backend_vars, consumed,
                   response_vars, disconnect, cancelled, served, others,
                   health_status, pc>>

(* run_server after its call of init_app: assert engine is not None, then  *)
(* serve_http opens the socket and requests come in through it.            *)
serve_http ==
    /\ engine # None
    /\ ~serving
    /\ serving' = TRUE
    /\ UNCHANGED <<engine, body, handler_vars, backend_vars, consumed,
                   response_vars, disconnect, cancelled, served, others,
                   health_status, pc>>

(* The id of the request, while the request is in flight. *)
own_in_flight ==
    IF request_id # None /\ pc # "Done" THEN {request_id} ELSE {}

(* Another /generate request passes decoding on the same engine: it runs   *)
(* the handler's code and draws its request id as this one does.           *)
other_generate_start ==
    /\ engine # None
    /\ Cardinality(others) < MaxOthers
    /\ \E rid \in random_uuid(others \cup own_in_flight) :
         others' = others \cup {rid}
    /\ UNCHANGED <<engine, body, handler_vars, backend_vars, consumed,
                   response_vars, disconnect, cancelled, served, serving,
                   health_status, pc>>

(* Another request ends, whatever its outcome. *)
other_generate_end ==
    /\ \E rid \in others : others' = others \ {rid}
    /\ UNCHANGED <<engine, body, handler_vars, backend_vars, consumed,
                   response_vars, disconnect, cancelled, served, serving,
                   health_status, pc>>

----------------------------------------------------------------------------
(* Every step of the task that handles the request. *)
handler_step ==
    \/ generate_start
    \/ aggregate_next
    \/ aggregate_end
    \/ aggregate_raise
    \/ cancel_wait
    \/ aggregate_cancelled
    \/ stream_results_next
    \/ stream_results_end
    \/ stream_results_raise
    \/ stream_results_cancelled

Next ==
    \/ init_app
    \/ \E b \in Bodies : generate(b)
    \/ handler_step
    \/ \E o \in RequestOutputs : backend_yield(o)
    \/ backend_end
    \/ backend_fail
    \/ client_disconnect

Spec == Init /\ [][Next]_vars

(* The event loop runs a task that can take a step: no step of the        *)
(* handler stays possible forever without being taken.                     *)
FairSpec ==
    /\ Spec
    /\ WF_vars(generate_start)
    /\ WF_vars(aggregate_next)
    /\ WF_vars(aggregate_end)
    /\ WF_vars(aggregate_raise)
    /\ WF_vars(cancel_wait)
    /\ WF_vars(aggregate_cancelled)
    /\ WF_vars(stream_results_next)
    /\ WF_vars(stream_results_end)
    /\ WF_vars(stream_results_raise)
    /\ WF_vars(stream_results_cancelled)

(* The request and the start-up of run_server. *)
StartupNext ==
    \/ Next
    \/ serve_http

StartupSpec == Init /\ [][StartupNext]_vars

(* The request among the other requests on the same engine and the health *)
(* checks.                                                                 *)
ConcurrentNext ==
    \/ Next
    \/ health
    \/ other_generate_start
    \/ other_generate_end

ConcurrentSpec == Init /\ [][ConcurrentNext]_vars

----------------------------------------------------------------------------
(* Vocabulary of the properties. *)

Range(q) == {q[i] : i \in DOMAIN q}

(* The request passed decoding and the backend was invoked for it. *)
Invoked == gens # <<>>

AggregateMode == Invoked /\ ~Truthy(stream)
StreamingMode == Invoked /\ Truthy(stream)

(* The request is between the invocation of the backend and its end. *)
Generating == pc \in {"AggWait", "StreamWait"}

(* Consumption was stopped by cancellation; the request has not ended. *)
Interrupted == pc \in {"AggCancelled", "StreamCancelled"}

(* Record r carries the fields of request output o, candidate by candidate. *)
Encodes(r, o) ==
    /\ DOMAIN r = {"text", "output_token_ids", "logprobs"}
    /\ Len(r.text) = Len(o.outputs)
    /\ Len(r.output_token_ids) = Len(o.outputs)
    /\ Len(r.logprobs) = Len(o.outputs)
    /\ \A j \in DOMAIN o.outputs :
         /\ r.text[j] = o.outputs[j].text
         /\ r.output_token_ids[j] = o.outputs[j].token_ids
         /\ (r.logprobs[j] = Nothing) = (o.outputs[j].logprobs = Nothing)
         /\ o.outputs[j].logprobs # Nothing =>
              LET lp == o.outputs[j].logprobs[1]
                  rl == r.logprobs[j][1]
              IN  /\ Len(rl) = Len(lp)
                  /\ \A t \in DOMAIN lp :
                       /\ DOMAIN rl[t] = DOMAIN lp[t]
                       /\ \A k \in DOMAIN lp[t] :
                            /\ rl[t][k].logprob = lp[t][k].logprob
                            /\ rl[t][k].rank = lp[t][k].rank

(* The lines streaming mode emits for the backend sequence q. *)
StreamLines(q) == [i \in DOMAIN q |-> stream_line(q[i])]

----------------------------------------------------------------------------
(* C1: every request gets exactly one terminal outcome: never two, none    *)
(* while it is still being handled, one when it is done, and one is        *)
(* eventually produced once the backend sequence has ended or the client   *)
(* has disconnected.                                                       *)
C1_ExactlyOneOutcome ==
    /\ [](/\ Len(outcomes) <= 1
          /\ (pc = "Done") = (Len(outcomes) = 1)
          /\ Range(outcomes) \subseteq {"success", "cancelled", "error"})
    /\ (backend = "finished" \/ disconnect # None) ~> (Len(outcomes) = 1)

C1_Witness ==
    /\ pc = "Done"
    /\ Len(outcomes) = 1
    /\ backend = "finished"
    /\ disconnect # None
    /\ consumed >= 1

C3_AggregateCancelNoData ==
    (AggregateMode /\ cancelled /\ ~disconnect.exhausted)
        => /\ emitted = <<>>
           /\ outcomes \in {<<>>, <<"cancelled">>}
           /\ pc = "Done" => outcomes = <<"cancelled">> /\ status = 499

C3_Witness ==
    /\ AggregateMode
    /\ cancelled
    /\ pc = "Done"
    /\ outcomes = <<"cancelled">>
    /\ consumed >= 1
    /\ final_output # None
    /\ backend = "aborted"

C5_DisconnectLeadsToCancelled ==
    /\ (Generating /\ disconnect # None)
           ~> (pc = "Done" /\ outcomes = <<"cancelled">>)
    /\ [](disconnect # None /\ Invoked /\ pc = "Done"
              => outcomes = <<"cancelled">>)

C5_Witness ==
    /\ pc = "Done"
    /\ outcomes = <<"cancelled">>
    /\ disconnect # None
    /\ disconnect.pc = "StreamWait"
    /\ disconnect.consumed >= 1

(* C6: in every terminal state no backend session of the request is left   *)
(* outstanding: every generate invocation the request issued has been      *)
(* consumed to exhaustion or aborted.                                      *)
C6_NoOutstandingSession ==
    pc = "Done" =>
        /\ backend # "running"
        /\ \A i \in DOMAIN gens : gens[i].state \in {"exhausted", "aborted"}

(* C7: in streaming mode with no disconnect, the records emitted are the   *)
(* encodings of the outputs pulled so far, one per output and in order,    *)
(* and when the stream completes there are exactly as many records as the  *)
(* backend produced outputs: none skipped, repeated or added at the end.   *)
C7_StreamOneToOne ==
    (StreamingMode /\ disconnect = None) =>
        /\ Len(emitted) = consumed
        /\ consumed <= Len(produced)
        /\ \A i \in DOMAIN emitted :
             emitted[i].newline /\ Encodes(emitted[i].json, produced[i])
        /\ outcomes = <<"success">> =>
             Len(emitted) = Len(produced) /\ backend = "finished"

C7_Witness ==
    /\ StreamingMode
    /\ disconnect = None
    /\ outcomes = <<"success">>
    /\ Len(emitted) = 2
    /\ produced = <<OutB, OutA>>

C9_ModeConsistency ==
    (AggregateMode /\ outcomes = <<"success">>) =>
        LET lines == StreamLines(produced)
            last == lines[Len(lines)].json
            agg == emitted[1].json
        IN  /\ Len(emitted) = 1
            /\ agg.text = last.text
            /\ agg.output_token_ids = last.output_token_ids
            /\ agg.logprobs = last.logprobs

C9_Witness ==
    /\ AggregateMode
    /\ outcomes = <<"success">>
    /\ produced = <<OutA, OutB>>
    /\ emitted[1].json.logprobs[1] # Nothing

(* C10: a request whose body omits prompt never reaches the backend and    *)
(* ends in a client error: a 4xx status, not a server error.               *)
C10_MissingPromptClientError ==
    (body # None /\ "prompt" \notin DOMAIN body) =>
        /\ gens = <<>>
        /\ backend = "none"
        /\ pc = "Done" => status \in 400..499

(* The keyword arguments a body leaves for SamplingParams. *)
SamplingFields(d) ==
    [k \in DOMAIN d \ {"prompt", "stream"} |-> d[k]]

(* C11: a request that carries a prompt and sampling parameters that       *)
(* SamplingParams rejects never reaches the backend and ends in a client   *)
(* error: a 4xx status, not a server error.                                *)
C11_InvalidParamsClientError ==
    (/\ body # None
     /\ "prompt" \in DOMAIN body
     /\ ~SamplingParamsAccepts(SamplingFields(body))) =>
        /\ gens = <<>>
        /\ backend = "none"
        /\ aborts = <<>>
        /\ pc = "Done" => status \in 400..499

(* C12: every generate invocation of a request carries the prompt in the   *)
(* form its shape selects: token ids for a non-empty sequence that starts  *)
(* with an int, the prompt itself otherwise.                               *)
C12_PromptRouting ==
    \A i \in DOMAIN gens :
        gens[i].inputs =
            IF /\ "list" \in DOMAIN prompt
               /\ prompt.list # <<>>
               /\ "int" \in DOMAIN prompt.list[1]
            THEN TokensPrompt(prompt)
            ELSE prompt

C15_BackendUnavailable ==
    /\ [][(pc = "Received" /\ pc' # pc /\ engine = None) =>
            /\ pc' = "Done"
            /\ outcomes' = <<"error">>
            /\ status' = 500
            /\ gens' = <<>>
            /\ backend' = "none"
            /\ aborts' = <<>>]_vars
    /\ []((serving \/ served) => engine # None)

C15_Witness ==
    /\ raised = "AssertionError"
    /\ gens = <<>>
    /\ ~served
    /\ serving

(* C16: in every state a GET /health can be answered, every answer it has *)
(* given is 200, and the step that answers changes nothing of the engine,  *)
(* of the requests or of the server.                                       *)
C16_HealthAlwaysOk ==
    /\ [](ENABLED health)
    /\ [](health_status \in {0, 200})
    /\ [][health_status' # health_status =>
            UNCHANGED <<engine, body, handler_vars, backend_vars, consumed,
                        response_vars, disconnect, cancelled, served, serving,
                        others, pc>>]_vars

C16_Witness ==
    /\ health_status = 200
    /\ engine = None
    /\ pc = "Done"
    /\ outcomes = <<"error">>

(* C17: once _generate has decoded a body that carries a prompt, the       *)
(* keyword dict for SamplingParams is the body without prompt and stream,  *)
(* every other key with its value as sent, and the SamplingParams built    *)
(* are built from exactly that; a body with no stream key is handled in    *)
(* aggregate mode: no status line before the end and no stream line.       *)
C17_DecodingFrame ==
    (/\ body # None
     /\ "prompt" \in DOMAIN body
     /\ pc \notin {"Idle", "Received"}) =>
        /\ prompt = body["prompt"]
        /\ request_dict = SamplingFields(body)
        /\ sampling_params # None =>
               sampling_params = SamplingParams(SamplingFields(body))
        /\ \A i \in DOMAIN gens :
               gens[i].sampling_params = SamplingParams(SamplingFields(body))
        /\ ("stream" \notin DOMAIN body /\ Invoked) =>
               /\ stream = PyBool(FALSE)
               /\ pc \in {"AggWait", "AggCancelled", "Done"}
               /\ pc # "Done" => status = 0
               /\ \A i \in DOMAIN emitted : ~emitted[i].newline

C17_Witness ==
    /\ DOMAIN body = {"prompt", "max_tokens"}
    /\ DOMAIN request_dict = {"max_tokens"}
    /\ outcomes = <<"success">>
    /\ Len(emitted) = 1
    /\ ~emitted[1].newline

(* C18: a request that passes decoding issues exactly one engine.generate  *)
(* call: one output sequence is opened for its request id, and it is the   *)
(* one the handler is bound to and consumes.                               *)
C18_SingleInvocation ==
    Invoked =>
        /\ Len(gens) = 1
        /\ \A i \in DOMAIN gens :
             /\ i = results_generator
             /\ gens[i].state # "created"

(* C19: when the handler reaches the end of an output sequence that        *)
(* yielded nothing, the request has ended with no record; in aggregate     *)
(* mode in the error outcome, raised by the assertion on final_output; in  *)
(* streaming mode in the success outcome under status 200.  An aggregate   *)
(* request whose sequence ended empty never has the success outcome.       *)
C19_EmptySequence ==
    /\ (/\ Invoked
        /\ produced = <<>>
        /\ gens[results_generator].state = "exhausted") =>
           /\ pc = "Done"
           /\ emitted = <<>>
           /\ IF Truthy(stream)
              THEN outcomes = <<"success">> /\ raised = "" /\ status = 200
              ELSE /\ outcomes = <<"error">>
                   /\ raised = "AssertionError"
                   /\ status = 500
    /\ (AggregateMode /\ produced = <<>> /\ backend = "finished") =>
           /\ "success" \notin Range(outcomes)
           /\ emitted = <<>>

C19_Witness ==
    /\ AggregateMode
    /\ produced = <<>>
    /\ gens[results_generator].state = "exhausted"
    /\ raised = "AssertionError"
    /\ engine # None

====
